---------------------------- MODULE Spec2Model ----------------------------
(***************************************************************************)
(* A model of pyMooltipass: the Mooltipass protocol session of             *)
(* src/pyMooltipass/mooltipass.py over the HID transport of                *)
(* src/pyMooltipass/hid.py.                                                *)
(*                                                                         *)
(* The session is sequential Python.  Its control state is a call stack of *)
(* frames (function, position, locals); every transport write, transport   *)
(* read and time.sleep is one step.  The device is the environment: every  *)
(* read either times out or delivers one fixed-size HID report.            *)
(* Exceptions are strings naming the Python exception class; raising one   *)
(* unwinds the stack to the closest enclosing handler.                     *)
(***************************************************************************)
EXTENDS Integers, Sequences, FiniteSets, TLC

-----------------------------------------------------------------------------
(* Bounds of the model *)

\* Size in bytes of one HID report delivered by the transport (wMaxPacketSize).
PacketSize == 16

\* The device holds at most this many favorite slots with a non-null address.
MaxPopulated == 1

-----------------------------------------------------------------------------
(* Program constants *)

PING == 161
VERSION == 162
START_MEMORYMGMT == 173
SET_MOOLTIPASS_PARM == 177
GET_MOOLTIPASS_PARM == 178
MOOLTIPASS_STATUS == 185
READ_FLASH_NODE == 197
GET_FAVORITE == 199
END_MEMORYMGMT == 211

NO_CARDS == 0
LOCKED == 1
UNLOCKING == 3
UNLOCKED == 5
INVALID_SMARTCARD == 9

SUCCESS == 1

LEN_INDEX == 0
CMD_INDEX == 1
DATA_INDEX == 2
SERVICE_INDEX == 8
LOGIN_INDEX == 37

KEYBD_ID_OFFSET == 146

\* _max_reties of _ping
MaxRetries == 3

\* range(14) of get_favorites_list
NumFavorites == 14

\* default timeout of _read_data, in ms
DefaultTimeout == 1500

\* The keys of Mooltipass.STATUS
STATUS == {NO_CARDS, LOCKED, UNLOCKING, UNLOCKED, INVALID_SMARTCARD}

\* Mooltipass.PARAMETERS restricted to the names the model's client uses;
\* "bogus" is a name that is not in the table.
PARAMETERS == [keyboard_layout |-> 1, lock_timeout |-> 4]

ParamNames == {"keyboard_layout", "lock_timeout", "bogus"}

\* Python's None, as a value that is no byte sequence of the protocol.
None == << -1 >>

-----------------------------------------------------------------------------
(* Python sequences: 0-based indexing and slicing *)

\* s[i] of Python for 0 <= i; the caller checks HasIdx first (else IndexError).
At(s, i) == s[i + 1]

HasIdx(s, i) == i < Len(s)

Min(a, b) == IF a < b THEN a ELSE b

\* s[lo:hi] of Python for 0 <= lo: clamped to the sequence, never an error.
Slice(s, lo, hi) ==
    LET h == Min(hi, Len(s))
    IN  IF lo >= h THEN << >> ELSE SubSeq(s, lo + 1, h)

\* s[lo:] of Python.
SliceFrom(s, lo) == Slice(s, lo, Len(s))

\* "".join(chr(c) for c in s).split('\x00')[0]: the bytes before the first null.
RECURSIVE UpToNull(_)
UpToNull(s) ==
    IF s = << >> \/ Head(s) = 0 THEN << >>
    ELSE << Head(s) >> \o UpToNull(Tail(s))


-----------------------------------------------------------------------------
(* The wire format *)

\* _send_command, lines 243-250: [len(payload), command, payload...].
Encode(command, arg) == << Len(arg), command >> \o arg

\* A report as the device sends it: the packet padded with zeros to PacketSize.
Report(command, data) ==
    LET p == Encode(command, data)
    IN  p \o [i \in 1..(PacketSize - Len(p)) |-> 0]

\* A variant of the status test that looks at the opcode alone.
IsStatusReport(res) == At(res, CMD_INDEX) = MOOLTIPASS_STATUS

\* The status test of _read_data, lines 264-265 and 271-272.
IsUnlocking(res) ==
    At(res, CMD_INDEX) = MOOLTIPASS_STATUS /\ At(res, DATA_INDEX) = UNLOCKING

\* A variant of _beginning that leaves the full_packet argument out.
BeginningOfData(kw) == DATA_INDEX

\* _beginning of _read_data, lines 259-261.
Beginning(kw) == IF kw.full_packet THEN CMD_INDEX ELSE DATA_INDEX

\* A variant of the returned slice that runs to the end of the report.
DecodeToEnd(res, kw) == SliceFrom(res, Beginning(kw))

\* The value _read_data returns, line 274.
Decode(res, kw) == Slice(res, Beginning(kw), DATA_INDEX + At(res, LEN_INDEX))

\* The keyword arguments of _read_data and their defaults, lines 256-263.
Kw(timeout, retry) ==
    [timeout |-> timeout, full_packet |-> FALSE, retry_on_locked |-> retry]

DefaultKw == Kw(DefaultTimeout, FALSE)

-----------------------------------------------------------------------------
(* The device: what a read may deliver after the last command written *)

\* The bytes random.randint draws for the ping, restricted to two values;
\* one of them is the code of the Unlocked status.
PingBytes == {UNLOCKED, 7}

StatusReport(s) == Report(MOOLTIPASS_STATUS, << s >>)

\* The Unlocking status report arrives unsolicited, whatever command is in flight.
Unsolicited == {StatusReport(UNLOCKING)}

\* One third of a flash node: a full report whose payload is text.  Kind 1
\* repeats "abc\0", kind 2 holds no null byte at all and is sent only as the
\* first third.
NodeByte(kind, i) ==
    IF kind = 1 THEN (IF i % 4 = 3 THEN 0 ELSE 97 + (i % 4)) ELSE 120

NodeReport(kind) ==
    Report(READ_FLASH_NODE, [i \in 1..(PacketSize - 2) |-> NodeByte(kind, i - 1)])

\* The replies to GET_FAVORITE: an empty slot, a slot with a null parent
\* address and a child address, and a populated slot.
FavoriteEmpty == Report(GET_FAVORITE, << 0, 0, 0, 0 >>)

FavoriteChildOnly == Report(GET_FAVORITE, << 0, 0, 2, 0 >>)

FavoritePopulated == Report(GET_FAVORITE, << 4, 0, 2, 0 >>)

\* A report left in the input queue by an earlier exchange (hid.py, line
\* 234, "Cleaning remaining input packets"): the echo of a ping whose first
\* random byte is 5.
LateEcho == Report(PING, << UNLOCKED, 7 >>)

\* The answers to packet w; first: none of them has been read yet.
Answers(w, first) ==
    LET c == At(w, CMD_INDEX)
    IN  CASE c = PING ->
               { Report(PING, << At(w, 2), At(w, 3) >>),
                 Report(PING, << At(w, 2), 0 >>),
                 Report(PING, << >>),
                 StatusReport(UNLOCKED) }
          [] c = VERSION -> { Report(VERSION, << 1 >>), Report(VERSION, << >>) }
          [] c = MOOLTIPASS_STATUS ->
               { StatusReport(NO_CARDS), StatusReport(LOCKED),
                 StatusReport(UNLOCKED), StatusReport(INVALID_SMARTCARD),
                 Report(MOOLTIPASS_STATUS, << >>),
                 Report(MOOLTIPASS_STATUS, << 7 >>),
                 LateEcho }
          [] c = SET_MOOLTIPASS_PARM ->
               { Report(c, << SUCCESS >>), Report(c, << 0 >>), Report(c, << >>) }
          [] c = START_MEMORYMGMT ->
               { Report(c, << SUCCESS >>), Report(c, << 0 >>), Report(c, << >>),
                 StatusReport(LOCKED) }
          [] c = END_MEMORYMGMT -> { Report(c, << SUCCESS >>) }
          [] c = GET_FAVORITE ->
               { FavoriteEmpty, FavoriteChildOnly, FavoritePopulated,
                 Report(c, << 0 >>) }
          [] c = READ_FLASH_NODE ->
               IF first THEN { NodeReport(1), NodeReport(2) } ELSE { NodeReport(1) }
          [] OTHER -> { }

\* Whether report p, read as the reply to GET_FAVORITE, names a slot in use:
\* one of the bytes of its two addresses is not zero.
SlotInUse(p) == \E i \in 1..Len(Decode(p, DefaultKw)) : Decode(p, DefaultKw)[i] # 0

\* The reports a read may deliver after packet w was written, the device
\* having answered GET_FAVORITE with n slots in use so far.
Replies(w, n, first) ==
    { p \in Unsolicited \cup Answers(w, first) :
        (At(w, CMD_INDEX) = GET_FAVORITE /\ SlotInUse(p)) => n < MaxPopulated }

-----------------------------------------------------------------------------
VARIABLES
    session,     \* "Disconnected" or "Ready": whether a with-block holds the session
    hid_device,  \* HIDDevice.__hid_device: "None" or "open"
    op,          \* the operation the client has called and not yet seen end, or "none"
    stack,       \* the call stack, innermost frame last
    ret,         \* the value the last completed call returned
    outcome,     \* how the client's operation ended
    logLevel,    \* the level given to logging.disable: "NOTSET" or "DEBUG"
    lastWrite,   \* the last packet written to the device
    lastIO,      \* the last transport or clock event of the session
    hist         \* history of the running operation, kept for the properties

vars == << session, hid_device, op, stack, ret, outcome, logLevel, lastWrite,
           lastIO, hist >>

NoOutcome == [kind |-> "none", err |-> "none"]

Returned == [kind |-> "returned", err |-> "none"]

Raised(e) == [kind |-> "raised", err |-> e]

NoIO == [kind |-> "none", data |-> << >>]

\* The history at the start of an operation.
NoHist ==
    [ pingWrites |-> 0,         \* PING commands written
      pingSent |-> << >>,       \* the first of them
      pingWait |-> << >>,       \* the last report read when the
                                \* wait_status_unlocked of _ping returned
      pingReads |-> 0,          \* read attempts of the handshake
      pingTimeouts |-> 0,       \* those of them that timed out
      pingInterrupted |-> FALSE,\* the initial PING exchange raised InterruptedError
      pingEchoed |-> FALSE,     \* a reply carrying the two ping bytes was read
      unsleptReads |-> 0,       \* handshake reads not preceded by the 200ms sleep
      modeWaited |-> FALSE,     \* the wait_status_unlocked of
                                \* _data_management_mode returned
      scope |-> "none",         \* "entered", "declined" by the START_MEMORYMGMT reply
      slotsAsked |-> 0,         \* GET_FAVORITE commands written
      endWrites |-> 0,          \* END_MEMORYMGMT commands written
      nodePackets |-> << >>,    \* the reports read since READ_FLASH_NODE was
                                \* written, when it is the last command written
      emptySlot |-> -1,         \* the slot just found with a null parent address
      emptySlots |-> { },       \* slots whose reply had a null parent address
      strayIO |-> FALSE,        \* a READ_FLASH_NODE or a read followed an empty slot
      populated |-> { },        \* slots whose reply had a non-null parent address
      childOnly |-> { },        \* slots whose reply had a null parent, non-null child
      exchange |-> "none",      \* how the last read attempt ended ("resumed":
                                \* returned from inside the retry-on-locked loop)
      packet |-> << >>,         \* the last report read
      payload |-> None,         \* what that read attempt made _read_data return
      retry |-> FALSE,          \* whether that read had retry-on-locked semantics
      settled |-> FALSE,        \* the device has come to answer every status
                                \* query with Unlocked, without a timeout
      waitReturn |-> << >> ]    \* the last report read when wait_status_unlocked returned

\* What the device may deliver to the next read.
Delivered ==
    Replies(lastWrite, Cardinality(hist.populated \cup hist.childOnly),
            lastIO.kind = "write")

Top == stack[Len(stack)]

Pop(stk) == SubSeq(stk, 1, Len(stk) - 1)

Running(fn, pc) == stack # << >> /\ Top.fn = fn /\ Top.pc = pc

\* The frame that called the innermost one.
Caller == IF Len(stack) >= 2 THEN stack[Len(stack) - 1].fn ELSE "client"

-----------------------------------------------------------------------------
(* Frames *)

SendCommandFrame(command, arg, kw) ==
    [fn |-> "_send_command", pc |-> "write", command |-> command, arg |-> arg,
     kw |-> kw]

ReadDataFrame(kw) == [fn |-> "_read_data", pc |-> "read", kw |-> kw, res |-> None]

GetStatusFrame == [fn |-> "get_status", pc |-> "start"]

WaitFrame == [fn |-> "wait_status_unlocked", pc |-> "start", res |-> None]

PingFrame == [fn |-> "_ping", pc |-> "start", data |-> << >>, res |-> None, retries |-> 0]

EnterFrame == [fn |-> "__enter__", pc |-> "start"]

SetParameterFrame(param, value) ==
    [fn |-> "_set_parameter", pc |-> "start", param |-> param, value |-> value]

\* The generator of _data_management_mode: _success is "False", "True" or
\* "None"; pending is the exception its finally block re-raises at its end.
ModeFrame(pc, success, pending) ==
    [fn |-> "_data_management_mode", pc |-> pc, success |-> success,
     pending |-> pending]

FavoritesFrame ==
    [fn |-> "get_favorites_list", pc |-> "start", favorite |-> << >>,
     fav_count |-> 0, fav_data |-> << >>, parent_data |-> << >>,
     context |-> << >>, child_data |-> << >>, gen |-> "False"]

-----------------------------------------------------------------------------
(* Exceptions *)

\* The positions of get_favorites_list inside its with block, lines 374-411.
BodyPcs ==
    {"body", "after_favorite", "after_parent1", "after_parent2", "after_parent3",
     "after_child1", "after_child2", "after_child3"}

\* The positions of _data_management_mode inside its try block, lines 307-327.
TryPcs == {"after_wait", "after_start"}

\* What frame f does with exception e raised at its position: the frames that
\* replace it when a handler of f takes e, << >> when e leaves f.
\*   get_status, line 351; wait_status_unlocked, lines 341-344; _ping, lines
\*   215-217 and 233; _data_management_mode, lines 321 and 328; the with
\*   statement of get_favorites_list, line 373, which throws e into the
\*   suspended generator.
Catch(f, e) ==
    CASE f.fn = "get_status" /\ f.pc = "after_send" /\ e = "InterruptedError" ->
           << [f EXCEPT !.pc = "except_interrupted"] >>
      [] f.fn = "wait_status_unlocked" /\ f.pc = "after_poll" /\ e = "TimeoutError" ->
           << [f EXCEPT !.pc = "sleep_timeout"] >>
      [] f.fn = "wait_status_unlocked" /\ f.pc = "after_poll" /\ e = "InterruptedError" ->
           << [f EXCEPT !.pc = "sleep_interrupted"] >>
      [] f.fn = "_ping" /\ f.pc = "after_send" /\ e = "USBError" ->
           << [f EXCEPT !.pc = "except_usb"] >>
      [] f.fn = "_ping" /\ f.pc = "after_send" /\ e = "InterruptedError" ->
           << [f EXCEPT !.pc = "except_interrupted"] >>
      [] f.fn = "_ping" /\ f.pc = "after_read" /\ e = "TimeoutError" ->
           << [f EXCEPT !.pc = "read_timeout"] >>
      [] f.fn = "_data_management_mode" /\ f.pc = "after_start" /\ e = "TimeoutError" ->
           << [f EXCEPT !.pc = "sleep"] >>
      [] f.fn = "_data_management_mode" /\ f.pc \in TryPcs
            /\ ~(f.pc = "after_start" /\ e = "TimeoutError") ->
           << [f EXCEPT !.pc = "finally", !.pending = e] >>
      [] f.fn = "get_favorites_list" /\ f.pc \in BodyPcs ->
           << [f EXCEPT !.pc = "after_exit"], ModeFrame("finally", f.gen, e) >>
      [] OTHER -> << >>

\* The stack after e is raised in the innermost frame of stk; << >> when no
\* frame handles it and it reaches the client.
RECURSIVE Unwind(_, _)
Unwind(stk, e) ==
    IF stk = << >> THEN << >>
    ELSE LET c == Catch(stk[Len(stk)], e)
         IN  IF c # << >> THEN Pop(stk) \o c ELSE Unwind(Pop(stk), e)

\* raise e in the innermost frame of stk.
ThrowFrom(stk, e) ==
    /\ stack' = Unwind(stk, e)
    /\ outcome' = IF Unwind(stk, e) = << >> THEN Raised(e) ELSE outcome
    /\ UNCHANGED ret

Throw(e) == ThrowFrom(stack, e)

\* return v from the innermost frame.
Return(v) ==
    /\ stack' = Pop(stack)
    /\ ret' = v
    /\ outcome' = IF Len(stack) = 1 THEN Returned ELSE outcome

\* The innermost frame moves on to f.
Goto(f) ==
    /\ stack' = [stack EXCEPT ![Len(stack)] = f]
    /\ UNCHANGED << ret, outcome >>

\* The innermost frame moves to position pc and calls callee.
Call(pc, callee) ==
    /\ stack' = Append([stack EXCEPT ![Len(stack)].pc = pc], callee)
    /\ UNCHANGED << ret, outcome >>

CallFrom(f, callee) ==
    /\ stack' = Append([stack EXCEPT ![Len(stack)] = f], callee)
    /\ UNCHANGED << ret, outcome >>

-----------------------------------------------------------------------------
(* The transport and the clock *)

\* HIDDevice.write: the packet goes out; a USBError is logged and dropped.
WriteEffect(p) ==
    LET c == At(p, CMD_INDEX)
    IN  /\ lastWrite' = p
        /\ lastIO' = [kind |-> "write", data |-> p]
        /\ hist' = [hist EXCEPT
             !.pingWrites = IF c = PING THEN @ + 1 ELSE @,
             !.pingSent = IF c = PING /\ @ = << >> THEN p ELSE @,
             !.slotsAsked = IF c = GET_FAVORITE THEN @ + 1 ELSE @,
             !.nodePackets = << >>,
             !.endWrites = IF c = END_MEMORYMGMT THEN @ + 1 ELSE @,
             !.strayIO = @ \/ (hist.emptySlot # -1
                                 /\ p # Encode(GET_FAVORITE, << hist.emptySlot + 1 >>)
                                 /\ ~(c = END_MEMORYMGMT
                                      /\ hist.emptySlot = NumFavorites - 1)),
             !.emptySlot = IF c \in {GET_FAVORITE, END_MEMORYMGMT} THEN -1 ELSE @]

\* time.sleep(ms / 1000).
SleepEffect(ms) ==
    /\ lastIO' = [kind |-> "sleep", data |-> << ms >>]
    /\ UNCHANGED << lastWrite, hist >>

\* A read attempt of _read_data: kind is "read" or "timeout", p the report,
\* how is the way the attempt ends for _read_data and v what it returns.
ReadEffect(kind, p, how, v) ==
    LET inPing == Caller = "_ping"
        slept == lastIO = [kind |-> "sleep", data |-> << 200 >>]
    IN  /\ lastIO' = [kind |-> kind, data |-> p]
        /\ UNCHANGED lastWrite
        /\ hist' = [hist EXCEPT
             !.pingReads = IF inPing THEN @ + 1 ELSE @,
             !.pingTimeouts = IF inPing /\ kind = "timeout" THEN @ + 1 ELSE @,
             !.pingInterrupted = @ \/ (inPing /\ how = "interrupted"),
             !.pingEchoed = @ \/ (inPing /\ how = "returned" /\ Len(v) >= 2
                                   /\ v[1] = lastWrite[3] /\ v[2] = lastWrite[4]),
             !.unsleptReads = IF inPing /\ hist.pingReads > 0 /\ ~slept
                              THEN @ + 1 ELSE @,
             !.strayIO = @ \/ hist.emptySlot # -1,
             !.nodePackets = IF kind = "read" /\ lastWrite # << >>
                                /\ At(lastWrite, CMD_INDEX) = READ_FLASH_NODE
                             THEN Append(@, p) ELSE @,
             !.exchange = how,
             !.packet = p,
             !.payload = v,
             !.retry = Top.kw.retry_on_locked]

-----------------------------------------------------------------------------
(* _send_command and _read_data *)

\* _send_command, lines 242-253: build the packet, write it, and return what
\* _read_data returns (a tail call: the frame becomes that of _read_data).
SendCommandWrite ==
    /\ Running("_send_command", "write")
    /\ Goto(ReadDataFrame(Top.kw))
    /\ WriteEffect(Encode(Top.command, Top.arg))
    /\ UNCHANGED << session, hid_device, op, logLevel >>

\* _read_data, lines 257-274, once its first read has delivered report p.
ReadDataGot(p) ==
    IF IsUnlocking(p)
    THEN IF Top.kw.retry_on_locked
         THEN /\ Goto([Top EXCEPT !.pc = "retry_read", !.res = p])
              /\ ReadEffect("read", p, "retrying", None)
         ELSE /\ Throw("InterruptedError")
              /\ ReadEffect("read", p, "interrupted", None)
    ELSE /\ Return(Decode(p, Top.kw))
         /\ ReadEffect("read", p, "returned", Decode(p, Top.kw))

\* _read_data, lines 256-274, when the first read delivers a report.
ReadDataRead ==
    /\ Running("_read_data", "read")
    /\ \E p \in Delivered : ReadDataGot(p)
    /\ UNCHANGED << session, hid_device, op, logLevel >>

\* HIDDevice.read, lines 166-169: any USBError of the endpoint read, the
\* timeout among them, leaves _read_data (line 257) as a TimeoutError.
ReadDataTimeout ==
    /\ Running("_read_data", "read")
    /\ Throw("TimeoutError")
    /\ ReadEffect("timeout", << >>, "timeout", None)
    /\ UNCHANGED << session, hid_device, op, logLevel >>

\* The retry-on-locked loop, lines 264-267, when the read delivers p.
ReadDataRetryRead ==
    /\ Running("_read_data", "retry_read")
    /\ \E p \in Delivered :
         IF IsUnlocking(p)
         THEN /\ Goto([Top EXCEPT !.res = p])
              /\ ReadEffect("read", p, "retrying", None)
         ELSE /\ Return(Decode(p, Top.kw))
              /\ ReadEffect("read", p, "resumed", Decode(p, Top.kw))
    /\ UNCHANGED << session, hid_device, op, logLevel >>

\* A variant of the loop whose read lets its timeout out of _read_data.
ReadDataRetryTimeoutRaised ==
    /\ Running("_read_data", "retry_read")
    /\ Throw("TimeoutError")
    /\ ReadEffect("timeout", << >>, "timeout", None)
    /\ UNCHANGED << session, hid_device, op, logLevel >>

\* The retry-on-locked loop, lines 268-269: the read times out.
ReadDataRetryTimeout ==
    /\ Running("_read_data", "retry_read")
    /\ Goto([Top EXCEPT !.pc = "retry_sleep"])
    /\ ReadEffect("timeout", << >>, "retrying", None)
    /\ UNCHANGED << session, hid_device, op, logLevel >>

\* A variant of the sleep of the retry loop that sends the command again
\* from inside the loop.
ReadDataRetryResend ==
    /\ Running("_read_data", "retry_sleep")
    /\ Call("retry_read",
            SendCommandFrame(At(lastWrite, CMD_INDEX), SliceFrom(lastWrite, 2), Top.kw))
    /\ SleepEffect(2000)
    /\ UNCHANGED << session, hid_device, op, logLevel >>

\* time.sleep(2), line 269; _res still holds the Unlocking report.
ReadDataRetrySleep ==
    /\ Running("_read_data", "retry_sleep")
    /\ Goto([Top EXCEPT !.pc = "retry_read"])
    /\ SleepEffect(2000)
    /\ UNCHANGED << session, hid_device, op, logLevel >>

-----------------------------------------------------------------------------
(* get_status and wait_status_unlocked *)

\* get_status, line 350.
GetStatusCall ==
    /\ Running("get_status", "start")
    /\ Call("after_send", SendCommandFrame(MOOLTIPASS_STATUS, << >>, DefaultKw))
    /\ UNCHANGED << session, hid_device, op, logLevel, lastWrite, lastIO, hist >>

\* The value of self.STATUS[_res[0]]['status'], line 353, or the exception
\* the two subscripts raise.
StatusLookup(res) ==
    IF ~HasIdx(res, 0) THEN [err |-> "IndexError", status |-> -1]
    ELSE IF At(res, 0) \notin STATUS THEN [err |-> "KeyError", status |-> -1]
    ELSE [err |-> "none", status |-> At(res, 0)]

\* get_status, line 353, after _send_command returned.  The entry of
\* self.STATUS it returns is held as the sequence of its 'status' value.
GetStatusReturn ==
    /\ Running("get_status", "after_send")
    /\ IF StatusLookup(ret).err # "none"
       THEN Throw(StatusLookup(ret).err)
       ELSE Return(<< StatusLookup(ret).status >>)
    /\ UNCHANGED << session, hid_device, op, logLevel, lastWrite, lastIO, hist >>

\* get_status, lines 351-353: InterruptedError stands for the Unlocking status.
GetStatusInterrupted ==
    /\ Running("get_status", "except_interrupted")
    /\ Return(<< StatusLookup(<< UNLOCKING >>).status >>)
    /\ UNCHANGED << session, hid_device, op, logLevel, lastWrite, lastIO, hist >>

\* wait_status_unlocked, line 336: the first poll goes through get_status.
WaitStart ==
    /\ Running("wait_status_unlocked", "start")
    /\ Call("after_status", GetStatusFrame)
    /\ UNCHANGED << session, hid_device, op, logLevel, lastWrite, lastIO, hist >>

\* line 336: _res = [self.get_status()['status']].
WaitAfterStatus ==
    /\ Running("wait_status_unlocked", "after_status")
    /\ Goto([Top EXCEPT !.pc = "loop", !.res = << At(ret, 0) >>])
    /\ UNCHANGED << session, hid_device, op, logLevel, lastWrite, lastIO, hist >>

\* The loop test of line 338: not _res[0] == MooltipassStatus.UNLOCKED.
StillLocked(res) == At(res, 0) # UNLOCKED

\* wait_status_unlocked, lines 338-340 and 345: leave the loop or poll again.
WaitLoop ==
    /\ Running("wait_status_unlocked", "loop")
    /\ IF ~HasIdx(Top.res, 0)
       THEN Throw("IndexError") /\ UNCHANGED hist
       ELSE IF StillLocked(Top.res)
            THEN /\ Call("after_poll",
                         SendCommandFrame(MOOLTIPASS_STATUS, << >>, DefaultKw))
                 /\ UNCHANGED hist
            ELSE /\ Return(None)
                 /\ hist' = [hist EXCEPT !.waitReturn = hist.packet]
    /\ UNCHANGED << session, hid_device, op, logLevel, lastWrite, lastIO >>

\* line 340: _res = self._send_command(...).
WaitAfterPoll ==
    /\ Running("wait_status_unlocked", "after_poll")
    /\ Goto([Top EXCEPT !.pc = "loop", !.res = ret])
    /\ UNCHANGED << session, hid_device, op, logLevel, lastWrite, lastIO, hist >>

\* lines 341-342: except TimeoutError: time.sleep(1).
WaitSleepTimeout ==
    /\ Running("wait_status_unlocked", "sleep_timeout")
    /\ Goto([Top EXCEPT !.pc = "loop"])
    /\ SleepEffect(1000)
    /\ UNCHANGED << session, hid_device, op, logLevel >>

\* lines 343-344: except InterruptedError: time.sleep(1).
WaitSleepInterrupted ==
    /\ Running("wait_status_unlocked", "sleep_interrupted")
    /\ Goto([Top EXCEPT !.pc = "loop"])
    /\ SleepEffect(1000)
    /\ UNCHANGED << session, hid_device, op, logLevel >>

-----------------------------------------------------------------------------
(* The handshake: __enter__ and _ping *)

\* _ping, lines 209-214: two random bytes, the first PING exchange.
\* The handler of usb.core.USBError, line 215, never runs: HIDDevice.write
\* drops that error and HIDDevice.read turns it into TimeoutError.
PingStart ==
    /\ Running("_ping", "start")
    /\ \E b0 \in PingBytes, b1 \in PingBytes :
         CallFrom([Top EXCEPT !.pc = "after_send", !.data = << b0, b1 >>],
                  SendCommandFrame(PING, << b0, b1 >>, Kw(2000, FALSE)))
    /\ UNCHANGED << session, hid_device, op, logLevel, lastWrite, lastIO, hist >>

\* line 214: _res = self._send_command(...).
PingAfterSend ==
    /\ Running("_ping", "after_send")
    /\ Goto([Top EXCEPT !.pc = "loop", !.res = ret])
    /\ UNCHANGED << session, hid_device, op, logLevel, lastWrite, lastIO, hist >>

\* A variant of the handler that sends the PING again at once.
PingInterruptedResend ==
    /\ Running("_ping", "except_interrupted")
    /\ Call("after_resend", SendCommandFrame(PING, Top.data, Kw(2000, FALSE)))
    /\ UNCHANGED << session, hid_device, op, logLevel, lastWrite, lastIO, hist >>

\* lines 217-218: except InterruptedError: self.wait_status_unlocked().
PingInterrupted ==
    /\ Running("_ping", "except_interrupted")
    /\ Call("after_wait", WaitFrame)
    /\ UNCHANGED << session, hid_device, op, logLevel, lastWrite, lastIO, hist >>

\* line 219: the PING is sent again, inside the handler.
PingAfterWait ==
    /\ Running("_ping", "after_wait")
    /\ Call("after_resend", SendCommandFrame(PING, Top.data, Kw(2000, FALSE)))
    /\ hist' = [hist EXCEPT !.waitReturn = << >>, !.pingWait = hist.waitReturn]
    /\ UNCHANGED << session, hid_device, op, logLevel, lastWrite, lastIO >>

\* line 219: _res = self._send_command(...).
PingAfterResend ==
    /\ Running("_ping", "after_resend")
    /\ Goto([Top EXCEPT !.pc = "loop", !.res = ret])
    /\ UNCHANGED << session, hid_device, op, logLevel, lastWrite, lastIO, hist >>

\* A variant of the loop test that is content with the first byte.
PingTestFirstByte(res, data) ==
    IF res = None THEN "retry"
    ELSE IF ~HasIdx(res, 0) THEN "IndexError"
    ELSE IF At(res, 0) # At(data, 0) THEN "retry"
    ELSE "echo"

\* The loop test of lines 223-225: "echo", "retry", or "IndexError" when a
\* subscript of _res that the test evaluates is out of range.
PingTest(res, data) ==
    IF res = None THEN "retry"
    ELSE IF ~HasIdx(res, 0) THEN "IndexError"
    ELSE IF At(res, 0) # At(data, 0) THEN "retry"
    ELSE IF ~HasIdx(res, 1) THEN "IndexError"
    ELSE IF At(res, 1) # At(data, 1) THEN "retry"
    ELSE "echo"

\* line 227: if _retries > _max_reties.
PingGivesUp(retries) == retries > MaxRetries

\* _ping, lines 223-229 and 238-239.
PingLoop ==
    /\ Running("_ping", "loop")
    /\ LET t == PingTest(Top.res, Top.data)
       IN  IF t = "IndexError" THEN Throw("IndexError")
           ELSE IF t = "echo" THEN Return(TRUE)
           ELSE IF PingGivesUp(Top.retries) THEN Return(FALSE)
           ELSE Goto([Top EXCEPT !.pc = "sleep"])
    /\ UNCHANGED << session, hid_device, op, logLevel, lastWrite, lastIO, hist >>

\* lines 230-232: time.sleep(0.2), then a read without a new PING.
PingSleep ==
    /\ Running("_ping", "sleep")
    /\ Call("after_read", ReadDataFrame(Kw(2000, FALSE)))
    /\ SleepEffect(200)
    /\ UNCHANGED << session, hid_device, op, logLevel >>

\* lines 232 and 236: _res = self._read_data(...); _retries += 1.
PingAfterRead ==
    /\ Running("_ping", "after_read")
    /\ Goto([Top EXCEPT !.pc = "loop", !.res = ret, !.retries = @ + 1])
    /\ UNCHANGED << session, hid_device, op, logLevel, lastWrite, lastIO, hist >>

\* lines 233-236: except TimeoutError: _res = None; _retries += 1.
PingReadTimeout ==
    /\ Running("_ping", "read_timeout")
    /\ Goto([Top EXCEPT !.pc = "loop", !.res = None, !.retries = @ + 1])
    /\ UNCHANGED << session, hid_device, op, logLevel, lastWrite, lastIO, hist >>

\* Mooltipass.__enter__, lines 195-197: HIDDevice.__enter__ finds the device
\* and its endpoints, then the settle delay and the handshake.
EnterStart ==
    /\ Running("__enter__", "start")
    /\ hid_device' = "open"
    /\ Call("after_ping", PingFrame)
    /\ SleepEffect(500)
    /\ UNCHANGED << session, op, logLevel >>

\* HIDDevice.__enter__, lines 78-82: usb.core.find returns None.
EnterNotFound ==
    /\ Running("__enter__", "start")
    /\ hid_device' = "None"
    /\ Throw("ValueError")
    /\ UNCHANGED << session, op, logLevel, lastWrite, lastIO, hist >>

\* lines 197-201: the handshake failed, or VERSION is asked.
EnterAfterPing ==
    /\ Running("__enter__", "after_ping")
    /\ IF ~ret
       THEN Throw("IOError")
       ELSE Call("after_version", SendCommandFrame(VERSION, << >>, DefaultKw))
    /\ UNCHANGED << session, hid_device, op, logLevel, lastWrite, lastIO, hist >>

\* lines 203-204: _res[0] is logged and the session returned.
EnterAfterVersion ==
    /\ Running("__enter__", "after_version")
    /\ IF ~HasIdx(ret, 0) THEN Throw("IndexError") ELSE Return(None)
    /\ UNCHANGED << session, hid_device, op, logLevel, lastWrite, lastIO, hist >>

-----------------------------------------------------------------------------
(* _set_parameter *)

\* _set_parameter, lines 278-282: PARAMETERS[param] raises KeyError for a
\* name that is not in the table.
SetParameterStart ==
    /\ Running("_set_parameter", "start")
    /\ IF Top.param \notin DOMAIN PARAMETERS
       THEN Throw("KeyError")
       ELSE Call("after_send",
                 SendCommandFrame(SET_MOOLTIPASS_PARM,
                                  << PARAMETERS[Top.param], Top.value >>, DefaultKw))
    /\ UNCHANGED << session, hid_device, op, logLevel, lastWrite, lastIO, hist >>

\* hex(x) of Python: a string for an integer, TypeError for a str.
HexRaises(x) == x \in ParamNames

\* The exception of line 290: raise ValueError("...".format(hex(param))).
\* Its message is built first, and param is the name, a str.
RejectError(param) == IF HexRaises(param) THEN "TypeError" ELSE "ValueError"

\* lines 286-290.
SetParameterAfterSend ==
    /\ Running("_set_parameter", "after_send")
    /\ IF ~HasIdx(ret, 0) THEN Throw("IndexError")
       ELSE IF At(ret, 0) = SUCCESS THEN Return(None)
       ELSE Throw(RejectError(Top.param))
    /\ UNCHANGED << session, hid_device, op, logLevel, lastWrite, lastIO, hist >>

-----------------------------------------------------------------------------
(* _data_management_mode: the generator behind the with statement *)

\* line 307, inside the try block; _success is False.
ModeStart ==
    /\ Running("_data_management_mode", "start")
    /\ Call("after_wait", WaitFrame)
    /\ UNCHANGED << session, hid_device, op, logLevel, lastWrite, lastIO, hist >>

\* line 310: logging.disable(logging.DEBUG).
ModeAfterWait ==
    /\ Running("_data_management_mode", "after_wait")
    /\ Goto([Top EXCEPT !.pc = "entry_loop"])
    /\ logLevel' = "DEBUG"
    /\ hist' = [hist EXCEPT !.waitReturn = << >>,
                            !.modeWaited = hist.waitReturn # << >>]
    /\ UNCHANGED << session, hid_device, op, lastWrite, lastIO >>

\* lines 311-315: while not _success: send START_MEMORYMGMT.
ModeSendStart ==
    /\ Running("_data_management_mode", "entry_loop")
    /\ Top.success # "True"
    /\ Call("after_start", SendCommandFrame(START_MEMORYMGMT, << >>, Kw(2000, TRUE)))
    /\ UNCHANGED << session, hid_device, op, logLevel, lastWrite, lastIO, hist >>

\* A variant of the entry that takes any reply for a grant.
ModeAfterStartLenient ==
    /\ Running("_data_management_mode", "after_start")
    /\ IF ~HasIdx(ret, 0)
       THEN Throw("IndexError") /\ UNCHANGED hist
       ELSE /\ Goto([Top EXCEPT !.pc = "entry_loop", !.success = "True"])
            /\ hist' = [hist EXCEPT !.scope = IF At(ret, 0) # SUCCESS
                                              THEN "declined" ELSE "entered"]
    /\ UNCHANGED << session, hid_device, op, logLevel, lastWrite, lastIO >>

\* lines 316-320: the reply refuses (_success = None, InterruptedError) or
\* grants (_success = True) the mode.
ModeAfterStart ==
    /\ Running("_data_management_mode", "after_start")
    /\ IF ~HasIdx(ret, 0)
       THEN Throw("IndexError") /\ UNCHANGED hist
       ELSE IF At(ret, 0) # SUCCESS
            THEN /\ ThrowFrom([stack EXCEPT ![Len(stack)].success = "None"],
                              "InterruptedError")
                 /\ hist' = [hist EXCEPT !.scope = "declined"]
            ELSE /\ Goto([Top EXCEPT !.pc = "entry_loop", !.success = "True"])
                 /\ hist' = [hist EXCEPT !.scope = "entered"]
    /\ UNCHANGED << session, hid_device, op, logLevel, lastWrite, lastIO >>

\* A variant of the handler that gives the entry up after its sleep.
ModeSleepGivesUp ==
    /\ Running("_data_management_mode", "sleep")
    /\ Goto([Top EXCEPT !.pc = "finally", !.pending = "TimeoutError"])
    /\ SleepEffect(1000)
    /\ UNCHANGED << session, hid_device, op, logLevel >>

\* lines 321-322: except TimeoutError: time.sleep(1).
ModeSleep ==
    /\ Running("_data_management_mode", "sleep")
    /\ Goto([Top EXCEPT !.pc = "entry_loop"])
    /\ SleepEffect(1000)
    /\ UNCHANGED << session, hid_device, op, logLevel >>

\* lines 324-327: logging is enabled again and the generator yields: the
\* with statement of get_favorites_list keeps it suspended and runs its body.
ModeYield ==
    /\ Running("_data_management_mode", "entry_loop")
    /\ Top.success = "True"
    /\ stack' = [Pop(stack) EXCEPT ![Len(stack) - 1].pc = "body",
                                   ![Len(stack) - 1].gen = Top.success]
    /\ logLevel' = "NOTSET"
    /\ UNCHANGED << session, hid_device, op, ret, outcome, lastWrite, lastIO, hist >>

\* A variant of the exit test that sends the command whatever the entry gave.
ExitCommandAlways(success) == TRUE

\* line 331: if not _success is None.
ExitCommandDue(success) == success # "None"

\* The end of the generator: the exception that entered its finally block
\* goes on, or the generator is exhausted.
ModeEnd(pending) == IF pending = "none" THEN Return(None) ELSE Throw(pending)

\* lines 328-332: finally.
ModeFinally ==
    /\ Running("_data_management_mode", "finally")
    /\ logLevel' = "NOTSET"
    /\ IF ExitCommandDue(Top.success)
       THEN Call("after_end", SendCommandFrame(END_MEMORYMGMT, << >>, DefaultKw))
       ELSE ModeEnd(Top.pending)
    /\ UNCHANGED << session, hid_device, op, lastWrite, lastIO, hist >>

\* line 332: _res = self._send_command(END_MEMORYMGMT) returned.
ModeAfterEnd ==
    /\ Running("_data_management_mode", "after_end")
    /\ ModeEnd(Top.pending)
    /\ UNCHANGED << session, hid_device, op, logLevel, lastWrite, lastIO, hist >>

-----------------------------------------------------------------------------
(* get_favorites_list *)

\* lines 371-373: _favorite = {}; with self._data_management_mode().
FavoritesStart ==
    /\ Running("get_favorites_list", "start")
    /\ Call("entering", ModeFrame("start", "False", "none"))
    /\ UNCHANGED << session, hid_device, op, logLevel, lastWrite, lastIO, hist >>

\* lines 374-379: the next slot is asked for.
FavoritesRequest ==
    /\ Running("get_favorites_list", "body")
    /\ Top.fav_count < NumFavorites
    /\ Call("after_favorite",
            SendCommandFrame(GET_FAVORITE, << Top.fav_count >>, DefaultKw))
    /\ UNCHANGED << session, hid_device, op, logLevel, lastWrite, lastIO, hist >>

\* A variant of the slot test that looks at the child address, bytes 2 and 3.
SlotTestChild(fav_data) ==
    IF ~HasIdx(fav_data, 2) THEN "IndexError"
    ELSE IF At(fav_data, 2) # 0 THEN "defined"
    ELSE IF ~HasIdx(fav_data, 3) THEN "IndexError"
    ELSE IF At(fav_data, 3) # 0 THEN "defined"
    ELSE "empty"

\* The test of line 384, not (_fav_data[0] == 0 and _fav_data[1] == 0):
\* "defined", "empty", or "IndexError" from a subscript it evaluates.
SlotTest(fav_data) ==
    IF ~HasIdx(fav_data, 0) THEN "IndexError"
    ELSE IF At(fav_data, 0) # 0 THEN "defined"
    ELSE IF ~HasIdx(fav_data, 1) THEN "IndexError"
    ELSE IF At(fav_data, 1) # 0 THEN "defined"
    ELSE "empty"

\* The two addresses of a GET_FAVORITE reply, two bytes each.
ParentAddr(fav_data) == Slice(fav_data, 0, 2)

ChildAddr(fav_data) == Slice(fav_data, 2, 4)

NullAddr(addr) == \A i \in 1..Len(addr) : addr[i] = 0

\* lines 379-386 and 410-411: the reply to GET_FAVORITE.
FavoritesAfterFavorite ==
    /\ Running("get_favorites_list", "after_favorite")
    /\ LET t == SlotTest(ret)
           n == Top.fav_count
       IN  /\ IF t = "IndexError" THEN Throw("IndexError")
              ELSE IF t = "defined"
              THEN CallFrom([Top EXCEPT !.pc = "after_parent1", !.fav_data = ret],
                            SendCommandFrame(READ_FLASH_NODE, ParentAddr(ret),
                                             DefaultKw))
              ELSE Goto([Top EXCEPT !.pc = "body", !.fav_count = @ + 1,
                                    !.fav_data = << >>])
           /\ hist' = IF Len(ret) < 2 THEN hist ELSE [hist EXCEPT
                !.emptySlot = IF NullAddr(ParentAddr(ret)) THEN n ELSE @,
                !.emptySlots = IF NullAddr(ParentAddr(ret)) THEN @ \cup {n} ELSE @,
                !.populated = IF NullAddr(ParentAddr(ret)) THEN @ ELSE @ \cup {n},
                !.childOnly = IF NullAddr(ParentAddr(ret)) /\ ~NullAddr(ChildAddr(ret))
                              THEN @ \cup {n} ELSE @]
    /\ UNCHANGED << session, hid_device, op, logLevel, lastWrite, lastIO >>

\* lines 386-389: the first third of the parent node, then a bare read.
FavoritesAfterParent1 ==
    /\ Running("get_favorites_list", "after_parent1")
    /\ CallFrom([Top EXCEPT !.pc = "after_parent2", !.parent_data = ret],
                ReadDataFrame(DefaultKw))
    /\ UNCHANGED << session, hid_device, op, logLevel, lastWrite, lastIO, hist >>

\* A variant of the second extension that puts the packet in front.
FavoritesAfterParent2Prepend ==
    /\ Running("get_favorites_list", "after_parent2")
    /\ CallFrom([Top EXCEPT !.pc = "after_parent3", !.parent_data = ret \o @],
                ReadDataFrame(DefaultKw))
    /\ UNCHANGED << session, hid_device, op, logLevel, lastWrite, lastIO, hist >>

\* lines 389-390: _parent_data.extend(...), then the third read.
FavoritesAfterParent2 ==
    /\ Running("get_favorites_list", "after_parent2")
    /\ CallFrom([Top EXCEPT !.pc = "after_parent3", !.parent_data = @ \o ret],
                ReadDataFrame(DefaultKw))
    /\ UNCHANGED << session, hid_device, op, logLevel, lastWrite, lastIO, hist >>

\* A variant of the extraction that cuts the buffer at its first null byte
\* before it takes the part from the offset.
NodeStringCutFirst(buffer, offset) == SliceFrom(UpToNull(buffer), offset)

\* The text of a node buffer from a fixed offset to the first null byte,
\* lines 392-394 and 403-405.
NodeString(buffer, offset) == UpToNull(SliceFrom(buffer, offset))

\* lines 390-398: the context, then the child node is asked for.
FavoritesAfterParent3 ==
    /\ Running("get_favorites_list", "after_parent3")
    /\ CallFrom([Top EXCEPT !.pc = "after_child1", !.parent_data = @ \o ret,
                            !.context = NodeString(Top.parent_data \o ret,
                                                   SERVICE_INDEX)],
                SendCommandFrame(READ_FLASH_NODE, ChildAddr(Top.fav_data), DefaultKw))
    /\ UNCHANGED << session, hid_device, op, logLevel, lastWrite, lastIO, hist >>

\* lines 397-400.
FavoritesAfterChild1 ==
    /\ Running("get_favorites_list", "after_child1")
    /\ CallFrom([Top EXCEPT !.pc = "after_child2", !.child_data = ret],
                ReadDataFrame(DefaultKw))
    /\ UNCHANGED << session, hid_device, op, logLevel, lastWrite, lastIO, hist >>

\* lines 400-401.
FavoritesAfterChild2 ==
    /\ Running("get_favorites_list", "after_child2")
    /\ CallFrom([Top EXCEPT !.pc = "after_child3", !.child_data = @ \o ret],
                ReadDataFrame(DefaultKw))
    /\ UNCHANGED << session, hid_device, op, logLevel, lastWrite, lastIO, hist >>

\* A variant of the assignment that files the entry under the next index.
StoreFavoriteNext(favorite, slot, context, login) ==
    ((slot + 1) :> [context |-> context, login |-> login]) @@ favorite

\* line 409: _favorite[_fav_count] = {'context': _context, 'login': _login}.
StoreFavorite(favorite, slot, context, login) ==
    (slot :> [context |-> context, login |-> login]) @@ favorite

\* lines 401-409: the login, and the slot enters _favorite.  The locals of
\* the iteration are dead until the next one assigns them; they are cleared.
FavoritesAfterChild3 ==
    /\ Running("get_favorites_list", "after_child3")
    /\ Goto([Top EXCEPT
         !.pc = "body",
         !.favorite = StoreFavorite(@, Top.fav_count, Top.context,
                                    NodeString(Top.child_data \o ret, LOGIN_INDEX)),
         !.fav_count = @ + 1,
         !.fav_data = << >>, !.parent_data = << >>, !.context = << >>,
         !.child_data = << >>])
    /\ UNCHANGED << session, hid_device, op, logLevel, lastWrite, lastIO, hist >>

\* The body of the with statement ends: the generator is resumed after its
\* yield and runs its finally block.
FavoritesExit ==
    /\ Running("get_favorites_list", "body")
    /\ Top.fav_count >= NumFavorites
    /\ Call("after_exit", ModeFrame("finally", Top.gen, "none"))
    /\ UNCHANGED << session, hid_device, op, logLevel, lastWrite, lastIO, hist >>

\* line 413: return _favorite.
FavoritesReturn ==
    /\ Running("get_favorites_list", "after_exit")
    /\ Return(Top.favorite)
    /\ UNCHANGED << session, hid_device, op, logLevel, lastWrite, lastIO, hist >>

-----------------------------------------------------------------------------
(* The client of the session *)

Idle == op = "none" /\ stack = << >>

Begin(name, frame) ==
    /\ op' = name
    /\ stack' = << frame >>
    /\ UNCHANGED << session, hid_device, ret, outcome, logLevel, lastWrite,
                    lastIO, hist >>

\* with Mooltipass() as mltp, lines 419 and 194.
Connect == Idle /\ session = "Disconnected" /\ Begin("connect", EnterFrame)

CallSetParameter ==
    /\ Idle /\ session = "Ready"
    /\ \E param \in ParamNames, value \in {KEYBD_ID_OFFSET} :
         Begin("_set_parameter", SetParameterFrame(param, value))

CallGetStatus == Idle /\ session = "Ready" /\ Begin("get_status", GetStatusFrame)

CallWaitStatusUnlocked ==
    Idle /\ session = "Ready" /\ Begin("wait_status_unlocked", WaitFrame)

CallGetFavoritesList ==
    Idle /\ session = "Ready" /\ Begin("get_favorites_list", FavoritesFrame)

\* The operation has ended and the client takes its result or its exception.
\* A connect that raised leaves the with statement without a session and
\* without calling __exit__.
Observe ==
    /\ op # "none" /\ stack = << >>
    /\ op' = "none"
    /\ session' = IF op = "connect"
                  THEN (IF outcome.kind = "returned" THEN "Ready" ELSE "Disconnected")
                  ELSE session
    /\ ret' = None
    /\ outcome' = NoOutcome
    /\ lastIO' = NoIO
    /\ hist' = NoHist
    /\ UNCHANGED << hid_device, stack, logLevel, lastWrite >>

\* The with block ends: HIDDevice.__exit__, hid.py lines 183-189.
Disconnect ==
    /\ Idle /\ session = "Ready"
    /\ session' = "Disconnected"
    /\ hid_device' = "None"
    /\ lastWrite' = << >>
    /\ UNCHANGED << op, stack, ret, outcome, logLevel, lastIO, hist >>

-----------------------------------------------------------------------------
Init ==
    /\ session = "Disconnected"
    /\ hid_device = "None"
    /\ op = "none"
    /\ stack = << >>
    /\ ret = None
    /\ outcome = NoOutcome
    /\ logLevel = "NOTSET"
    /\ lastWrite = << >>
    /\ lastIO = NoIO
    /\ hist = NoHist

Next ==
    \/ Connect
    \/ CallSetParameter
    \/ CallGetStatus
    \/ CallWaitStatusUnlocked
    \/ CallGetFavoritesList
    \/ Observe
    \/ Disconnect
    \/ SendCommandWrite
    \/ ReadDataRead
    \/ ReadDataTimeout
    \/ ReadDataRetryRead
    \/ ReadDataRetryTimeout
    \/ ReadDataRetrySleep
    \/ GetStatusCall
    \/ GetStatusReturn
    \/ GetStatusInterrupted
    \/ WaitStart
    \/ WaitAfterStatus
    \/ WaitLoop
    \/ WaitAfterPoll
    \/ WaitSleepTimeout
    \/ WaitSleepInterrupted
    \/ PingStart
    \/ PingAfterSend
    \/ PingInterrupted
    \/ PingAfterWait
    \/ PingAfterResend
    \/ PingLoop
    \/ PingSleep
    \/ PingAfterRead
    \/ PingReadTimeout
    \/ EnterStart
    \/ EnterNotFound
    \/ EnterAfterPing
    \/ EnterAfterVersion
    \/ SetParameterStart
    \/ SetParameterAfterSend
    \/ ModeStart
    \/ ModeAfterWait
    \/ ModeSendStart
    \/ ModeAfterStart
    \/ ModeSleep
    \/ ModeYield
    \/ ModeFinally
    \/ ModeAfterEnd
    \/ FavoritesStart
    \/ FavoritesRequest
    \/ FavoritesAfterFavorite
    \/ FavoritesAfterParent1
    \/ FavoritesAfterParent2
    \/ FavoritesAfterParent3
    \/ FavoritesAfterChild1
    \/ FavoritesAfterChild2
    \/ FavoritesAfterChild3
    \/ FavoritesExit
    \/ FavoritesReturn

Spec == Init /\ [][Next]_vars

-----------------------------------------------------------------------------
(* The framing on its own: one exchange over a transport that hands every  *)
(* packet written back to the next read, padded to a full report.          *)

\* The bytes payloads are made of: zero, the code of Unlocking, the largest.
FramingBytes == {0, UNLOCKING, 255}

FramingOpcodes == {PING, MOOLTIPASS_STATUS, GET_FAVORITE}

\* The payloads of every length from 0 to the most a report carries, made of
\* one byte value with another one at one position.
FramingPayloads ==
    { [i \in 1..n |-> IF i = k THEN b ELSE c] :
        n \in 0..(PacketSize - 2), k \in 0..(PacketSize - 2),
        b \in FramingBytes, c \in FramingBytes }

\* The caller of the exchange; it keeps what it asked _send_command to send.
RoundTripFrame(command, arg, full) ==
    [fn |-> "roundtrip", pc |-> "after_send", command |-> command, arg |-> arg,
     full_packet |-> full]

InitFraming ==
    /\ session = "Ready"
    /\ hid_device = "open"
    /\ op = "_send_command"
    /\ \E command \in FramingOpcodes, arg \in FramingPayloads, full \in BOOLEAN :
         stack = << RoundTripFrame(command, arg, full),
                    SendCommandFrame(command, arg,
                                     [DefaultKw EXCEPT !.full_packet = full]) >>
    /\ ret = None
    /\ outcome = NoOutcome
    /\ logLevel = "NOTSET"
    /\ lastWrite = << >>
    /\ lastIO = NoIO
    /\ hist = NoHist

\* The report the loopback transport delivers: the packet written, padded
\* with zeros to the report size.
Loopback == lastWrite \o [i \in 1..(PacketSize - Len(lastWrite)) |-> 0]

\* _read_data, lines 256-274, reading the packet back.
ReadDataLoopback ==
    /\ Running("_read_data", "read")
    /\ ReadDataGot(Loopback)
    /\ UNCHANGED << session, hid_device, op, logLevel >>

NextFraming ==
    \/ SendCommandWrite
    \/ ReadDataLoopback

SpecFraming == InitFraming /\ [][NextFraming]_vars

-----------------------------------------------------------------------------
(* The decoding on its own: one exchange over a transport that delivers    *)
(* reports of every size, with every declared length.                      *)

\* A report of n bytes that declares d payload bytes; the byte at position
\* i, counted from 0, is 10 + i past the opcode.
SizedReport(n, d) ==
    [i \in 1..n |-> IF i = 1 THEN d ELSE IF i = 2 THEN GET_FAVORITE ELSE 9 + i]

\* The reports of 2 to PacketSize bytes, declaring 0 to PacketSize - 2 bytes:
\* padded, exact, and shorter than they declare.
SizedReports ==
    { SizedReport(n, d) : n \in 2..PacketSize, d \in 0..(PacketSize - 2) }

InitDecoding ==
    /\ session = "Ready"
    /\ hid_device = "open"
    /\ op = "_send_command"
    /\ \E full \in BOOLEAN :
         stack = << RoundTripFrame(GET_FAVORITE, << 0 >>, full),
                    SendCommandFrame(GET_FAVORITE, << 0 >>,
                                     [DefaultKw EXCEPT !.full_packet = full]) >>
    /\ ret = None
    /\ outcome = NoOutcome
    /\ logLevel = "NOTSET"
    /\ lastWrite = << >>
    /\ lastIO = NoIO
    /\ hist = NoHist

\* _read_data, lines 256-274, when the read delivers a report of some size.
ReadDataSized ==
    /\ Running("_read_data", "read")
    /\ \E p \in SizedReports : ReadDataGot(p)
    /\ UNCHANGED << session, hid_device, op, logLevel >>

NextDecoding ==
    \/ SendCommandWrite
    \/ ReadDataSized

SpecDecoding == InitDecoding /\ [][NextDecoding]_vars

-----------------------------------------------------------------------------
(* The node reads on their own: get_favorites_list at its last slot, the   *)
(* slot populated, over a device whose nodes hold text of every shape.     *)

\* Where the null byte of a third of a node stands, counted from 1; 0: the
\* third holds no null byte.
NullPositions == {0, 2, SERVICE_INDEX + 1, SERVICE_INDEX + 2, SERVICE_INDEX + 4}

\* A third of a node: 'a' up to its null byte, 'g' after it.
NodeThird(k) ==
    Report(READ_FLASH_NODE,
           [i \in 1..(PacketSize - 2) |->
              IF i = k THEN 0 ELSE IF i < k THEN 97 ELSE 103])

\* The reply to GET_FAVORITE of the last slot has been read.
InitNodes ==
    /\ session = "Ready"
    /\ hid_device = "open"
    /\ op = "get_favorites_list"
    /\ stack = << [FavoritesFrame EXCEPT !.pc = "after_favorite",
                                         !.fav_count = NumFavorites - 1,
                                         !.gen = "True"] >>
    /\ ret = Decode(FavoritePopulated, DefaultKw)
    /\ outcome = NoOutcome
    /\ logLevel = "NOTSET"
    /\ lastWrite = Encode(GET_FAVORITE, << NumFavorites - 1 >>)
    /\ lastIO = [kind |-> "read", data |-> FavoritePopulated]
    /\ hist = [NoHist EXCEPT !.scope = "entered", !.exchange = "returned",
                             !.modeWaited = TRUE, !.slotsAsked = NumFavorites,
                             !.packet = FavoritePopulated,
                             !.payload = Decode(FavoritePopulated, DefaultKw)]

\* _read_data, lines 256-274, when the read delivers a third of a node.
ReadDataNode ==
    /\ Running("_read_data", "read")
    /\ \E k \in NullPositions : ReadDataGot(NodeThird(k))
    /\ UNCHANGED << session, hid_device, op, logLevel >>

NextNodes ==
    \/ FavoritesAfterFavorite
    \/ SendCommandWrite
    \/ ReadDataNode
    \/ FavoritesAfterParent1
    \/ FavoritesAfterParent2
    \/ FavoritesAfterParent3
    \/ FavoritesAfterChild1
    \/ FavoritesAfterChild2
    \/ FavoritesAfterChild3

SpecNodes == InitNodes /\ [][NextNodes]_vars

-----------------------------------------------------------------------------
(* The unlock wait on its own: wait_status_unlocked over a device that at  *)
(* some point comes to answer every status query with Unlocked.            *)

InitUnlock ==
    /\ session = "Ready"
    /\ hid_device = "open"
    /\ op = "wait_status_unlocked"
    /\ stack = << WaitFrame >>
    /\ ret = None
    /\ outcome = NoOutcome
    /\ logLevel = "NOTSET"
    /\ lastWrite = << >>
    /\ lastIO = NoIO
    /\ hist = NoHist

\* The user unlocks the device: from here on every read delivers the
\* Unlocked status report.
DeviceSettles ==
    /\ stack # << >>
    /\ ~hist.settled
    /\ hist' = [hist EXCEPT !.settled = TRUE]
    /\ UNCHANGED << session, hid_device, op, stack, ret, outcome, logLevel,
                    lastWrite, lastIO >>

\* _read_data, lines 256-274, when the read delivers the answer of the device.
ReadDataPolled ==
    /\ Running("_read_data", "read")
    /\ \E p \in (IF hist.settled THEN {StatusReport(UNLOCKED)} ELSE Delivered) :
         ReadDataGot(p)
    /\ UNCHANGED << session, hid_device, op, logLevel >>

\* The read times out: the device has not settled yet.
ReadDataPollTimeout ==
    /\ ~hist.settled
    /\ ReadDataTimeout

\* The steps of the session: the device answers or the read times out, and
\* the code runs.
SessionStep ==
    \/ ReadDataPolled
    \/ ReadDataPollTimeout
    \/ SendCommandWrite
    \/ GetStatusCall
    \/ GetStatusReturn
    \/ GetStatusInterrupted
    \/ WaitStart
    \/ WaitAfterStatus
    \/ WaitLoop
    \/ WaitAfterPoll
    \/ WaitSleepTimeout
    \/ WaitSleepInterrupted

NextUnlock ==
    \/ DeviceSettles
    \/ SessionStep

\* The interpreter keeps running the session: a read ends, by a report or by
\* its timeout, a sleep ends, and the code between them is executed.
SpecUnlock == InitUnlock /\ [][NextUnlock]_vars /\ WF_vars(SessionStep)

-----------------------------------------------------------------------------
(* Properties *)

\* The client's operation name has ended and the client has not yet taken
\* its result.
Ended(name) == op = name /\ stack = << >>

\* The body of the with statement of get_favorites_list is running.
InScope ==
    \E i \in 1..Len(stack) :
        stack[i].fn = "get_favorites_list" /\ stack[i].pc \in BodyPcs

\* C1: memory-mode pairing.  A scope whose START_MEMORYMGMT was answered with
\* the success byte writes no END_MEMORYMGMT while its body runs and has
\* written exactly one when get_favorites_list ends, by return or by
\* exception; a scope whose entry was declined writes none.
C1_MemoryModePairing ==
    /\ hist.scope = "declined" => hist.endWrites = 0
    /\ hist.scope = "entered" =>
         /\ hist.endWrites <= 1
         /\ InScope => hist.endWrites = 0
         /\ Ended("get_favorites_list") => hist.endWrites = 1

\* C1 witness: the body raised InterruptedError after a granted entry, and
\* the one END_MEMORYMGMT was written and answered.
C1_Witness ==
    /\ Ended("get_favorites_list")
    /\ outcome = Raised("InterruptedError")
    /\ hist.scope = "entered"
    /\ hist.endWrites = 1
    /\ lastIO = [kind |-> "read", data |-> Report(END_MEMORYMGMT, << SUCCESS >>)]

\* C2: END_MEMORYMGMT is written only after a START_MEMORYMGMT exchange of
\* the scope returned the success byte.
C2_ExitOnlyAfterEntry == hist.endWrites > 0 => hist.scope = "entered"

\* C3: on a transport that always answers and never echoes, connect fails
\* with the handshake error after exactly 1 + MaxRetries read attempts, each
\* but the first preceded by the 200ms sleep.
C3_HandshakeRetryBound ==
    ( /\ Ended("connect")
      /\ outcome = Raised("IOError")
      /\ hist.pingTimeouts = 0
      /\ ~hist.pingInterrupted )
    => (hist.pingReads = 1 + MaxRetries /\ hist.unsleptReads = 0)

\* The step raises InterruptedError out of _read_data: nothing is returned,
\* and control passes to a handler of the exception or to the client.
RaisesInterrupted ==
    /\ ret' = ret
    /\ IF stack' = << >>
       THEN outcome' = Raised("InterruptedError")
       ELSE LET f == stack'[Len(stack')]
            IN  \/ f.pc \in {"except_interrupted", "sleep_interrupted"}
                \/ f.pc = "finally" /\ f.pending = "InterruptedError"

\* C4: status interception.  A read without retry-on-locked semantics that
\* delivers a MOOLTIPASS_STATUS report (0xB9) of Unlocking (3) raises
\* InterruptedError and returns nothing; one that delivers any other report
\* returns the payload of the declared length and raises nothing.
C4_StatusInterception ==
    [][ ( /\ Running("_read_data", "read")
          /\ ~Top.kw.retry_on_locked
          /\ lastIO'.kind = "read" )
        => LET p == lastIO'.data
           IN  IF p[2] = 185 /\ p[3] = 3
               THEN RaisesInterrupted
               ELSE /\ stack' = Pop(stack)
                    /\ ret' = Slice(p, 2, 2 + p[1])
                    /\ outcome'.kind # "raised" ]_vars

\* C4 witness: the Unlocking report was read without retry-on-locked
\* semantics and the exchange raised.
C4_Witness ==
    /\ hist.packet = StatusReport(UNLOCKING)
    /\ ~hist.retry
    /\ hist.exchange = "interrupted"
    /\ lastIO.kind = "read"

\* C5: _set_parameter of a known name ends without error when the first
\* response byte is the success code, and with the parameter-rejected error
\* (ValueError) when it is any other byte.
C5_ParameterSetContract ==
    (Ended("_set_parameter") /\ hist.exchange = "returned" /\ Len(hist.payload) >= 1)
    => IF hist.payload[1] = SUCCESS
       THEN outcome = Returned
       ELSE outcome = Raised("ValueError")

\* C6: a slot whose GET_FAVORITE reply has a null parent address is absent
\* from the mapping, and nothing is written or read for it before the next
\* slot's GET_FAVORITE (END_MEMORYMGMT after the last slot).
C6_EmptySlotSkipped ==
    /\ ~hist.strayIO
    /\ \A i \in 1..Len(stack) :
         stack[i].fn = "get_favorites_list"
           => DOMAIN stack[i].favorite \cap hist.emptySlots = { }
    /\ (Ended("get_favorites_list") /\ outcome = Returned)
         => DOMAIN ret \cap hist.emptySlots = { }

\* C6 witness: slot 0 was empty and the next command written is
\* GET_FAVORITE of slot 1.
C6_Witness ==
    /\ 0 \in hist.emptySlots
    /\ lastIO = [kind |-> "write", data |-> Encode(GET_FAVORITE, << 1 >>)]

\* C7, as claimed: the keys of the mapping are the slots whose parent address
\* or child address is not null.
C7_KeysAreSlotsInUse ==
    (Ended("get_favorites_list") /\ outcome = Returned)
    => DOMAIN ret = hist.populated \cup hist.childOnly

\* C7, amended: the keys of the mapping are exactly the slots whose parent
\* address is not null; a slot with a null parent address is omitted
\* whatever its child address.
C7_KeysAreSlotsWithParent ==
    (Ended("get_favorites_list") /\ outcome = Returned)
    => DOMAIN ret = hist.populated

\* C7 witness: get_favorites_list returned, a slot with a null parent address
\* and a child address was met, and the mapping leaves it out.
C7_Witness ==
    /\ Ended("get_favorites_list")
    /\ outcome = Returned
    /\ hist.childOnly # { }
    /\ DOMAIN ret \cap hist.childOnly = { }

\* C8: a connect that fails during the handshake, before VERSION is written,
\* does not fail with the transport's TimeoutError.
C8_HandshakeAbsorbsTimeout ==
    (Ended("connect") /\ outcome.kind = "raised" /\ lastWrite # << >>
       /\ At(lastWrite, CMD_INDEX) # VERSION)
    => outcome.err # "TimeoutError"

\* C9: when wait_status_unlocked returns, the last report it read is a
\* MOOLTIPASS_STATUS report of status Unlocked.
C9_ReturnsOnlyWhenUnlocked ==
    hist.waitReturn # << >>
    => /\ At(hist.waitReturn, CMD_INDEX) = MOOLTIPASS_STATUS
       /\ At(hist.waitReturn, LEN_INDEX) >= 1
       /\ At(hist.waitReturn, DATA_INDEX) = UNLOCKED

\* C10: wait_status_unlocked propagates neither TimeoutError nor
\* InterruptedError of a status poll, the first one included.
C10_WaitAbsorbsTransients ==
    Ended("wait_status_unlocked")
    => outcome.err \notin {"TimeoutError", "InterruptedError"}

\* C11: when connect fails after the transport was opened, during the
\* handshake, the handle has been released, __hid_device is None again, and
\* no session is established.
C11_HandleReleasedOnConnectError ==
    (Ended("connect") /\ outcome.kind = "raised" /\ hist.pingReads > 0)
    => (hid_device = "None" /\ session = "Disconnected")

\* C12: serialized exchanges.  Right after a write the session is at the
\* first read of that exchange; an exchange (_send_command, _read_data and
\* its retry-on-locked loop) is always the innermost frame, so nothing is
\* called and nothing is written while it is open; and a command is written
\* only when the last transport event is not a write.
C12_SerializedExchanges ==
    /\ lastIO.kind = "write" => Running("_read_data", "read")
    /\ \A i \in 1..Len(stack) :
         stack[i].fn \in {"_send_command", "_read_data"} => i = Len(stack)
    /\ Running("_send_command", "write") => lastIO.kind # "write"

\* C12 witness: GET_FAVORITE of slot 0 has just been written, after the
\* START_MEMORYMGMT exchange left its retry-on-locked loop with a reply.
C12_Witness ==
    /\ lastIO = [kind |-> "write", data |-> Encode(GET_FAVORITE, << 0 >>)]
    /\ hist.retry
    /\ hist.exchange = "resumed"
    /\ Running("_read_data", "read")

\* C13: framing round trip.  The packet _send_command writes for opcode c
\* and payload a is [len(a), c, a...]; read back as a report, its declared
\* length is len(a), its opcode c, and the slice of the declared length is
\* a; what _read_data returns for it is a (c followed by a with full_packet).
C13_FramingRoundTrip ==
    (stack # << >> /\ stack[1].fn = "roundtrip" /\ lastIO.kind \in {"write", "read"})
    => LET c == stack[1].command
           a == stack[1].arg
       IN  /\ lastWrite = << Len(a), c >> \o a
           /\ Loopback[1] = Len(a)
           /\ Loopback[2] = c
           /\ SubSeq(Loopback, 3, 2 + Loopback[1]) = a
           /\ (Running("roundtrip", "after_send") /\ lastIO.kind = "read")
                => ret = IF stack[1].full_packet THEN << c >> \o a ELSE a

\* C13 witness: the packet with an empty payload was written, read back and
\* decoded to the empty payload.
C13_Witness ==
    /\ Running("roundtrip", "after_send")
    /\ lastIO.kind = "read"
    /\ Top.arg = << >>
    /\ ~Top.full_packet
    /\ ret = << >>

\* The position, counted from 1, of the first null byte of buffer after the
\* first offset bytes; one past the end when there is none.
FirstNull(buffer, offset) ==
    IF \E j \in (offset + 1)..Len(buffer) : buffer[j] = 0
    THEN CHOOSE j \in (offset + 1)..Len(buffer) :
           buffer[j] = 0 /\ \A i \in (offset + 1)..(j - 1) : buffer[i] # 0
    ELSE Len(buffer) + 1

\* The bytes of buffer from offset up to, and without, that null byte.
TextAt(buffer, offset) == SubSeq(buffer, offset + 1, FirstNull(buffer, offset) - 1)

\* C14: null-terminated extraction.  The context get_favorites_list keeps is
\* the bytes of the three parent packets from offset 8 up to the first null
\* byte at or after it, and the login it files is the bytes of the three
\* child packets from offset 37 up to the first null byte at or after it.
C14_NullTerminatedExtraction ==
    [][ /\ Running("get_favorites_list", "after_parent3")
          => stack'[Len(stack)].context = TextAt(Top.parent_data \o ret, 8)
        /\ Running("get_favorites_list", "after_child3")
          => stack'[Len(stack)].favorite[Top.fav_count] =
               [context |-> TextAt(Top.parent_data, 8),
                login |-> TextAt(Top.child_data \o ret, 37)] ]_vars

\* C14 witness: the slot was filed with the context "aaa", cut at a null
\* byte that garbage follows, and with the empty login of a node whose null
\* byte stands at the login offset.
C14_Witness ==
    /\ Running("get_favorites_list", "body")
    /\ (NumFavorites - 1) \in DOMAIN Top.favorite
    /\ Top.favorite[NumFavorites - 1].context = << 97, 97, 97 >>
    /\ Top.favorite[NumFavorites - 1].login = << >>

\* The innermost frame stays the one of _read_data, at position pc and with
\* the keyword arguments (the timeout among them) it has; nothing is
\* returned and nothing raised.
StaysInReadData(pc) ==
    /\ Len(stack') = Len(stack)
    /\ Pop(stack') = Pop(stack)
    /\ stack'[Len(stack)].fn = "_read_data"
    /\ stack'[Len(stack)].pc = pc
    /\ stack'[Len(stack)].kw = Top.kw
    /\ ret' = ret
    /\ outcome' = outcome

\* C15: retry-on-locked exchange.  A _read_data with retry-on-locked
\* semantics that reads an Unlocking status report returns nothing and raises
\* nothing: it goes on to read again; a read that times out inside the loop
\* is followed by a 2s sleep and another read; any other report ends the
\* exchange with its payload.  InterruptedError never leaves it.
C15_RetryOnLocked ==
    [][ (stack # << >> /\ Top.fn = "_read_data" /\ Top.kw.retry_on_locked)
        => /\ lastIO'.kind = "read"
             => LET p == lastIO'.data
                IN  IF p[2] = 185 /\ p[3] = 3
                    THEN StaysInReadData("retry_read")
                    ELSE /\ stack' = Pop(stack)
                         /\ ret' = Slice(p, 2, 2 + p[1])
           /\ (Top.pc = "retry_read" /\ lastIO'.kind = "timeout")
             => StaysInReadData("retry_sleep")
           /\ Top.pc = "retry_sleep"
             => /\ lastIO' = [kind |-> "sleep", data |-> << 2000 >>]
                /\ StaysInReadData("retry_read")
           /\ outcome'.err # "InterruptedError"
           /\ \A i \in 1..Len(stack') :
                stack'[i].fn = "_data_management_mode"
                  => stack'[i].pending # "InterruptedError"
      ]_vars

\* C15 witness: inside the loop a read timed out, the 2s sleep was taken and
\* the next read is due.
C15_Witness ==
    /\ Running("_read_data", "retry_read")
    /\ Top.kw.retry_on_locked
    /\ lastIO = [kind |-> "sleep", data |-> << 2000 >>]
    /\ Top.res = StatusReport(UNLOCKING)

\* C16: connect returns a session only after a reply whose first two payload
\* bytes are the two bytes of the PING was read; VERSION is written only
\* after that reply; and a connect that fails with the handshake error has
\* read no such reply, so it has written no VERSION.
C16_ReadyOnlyThroughEcho ==
    /\ (Ended("connect") /\ outcome = Returned) => hist.pingEchoed
    /\ (op = "connect" /\ lastIO.kind = "write" /\ lastIO.data[2] = 162)
         => hist.pingEchoed
    /\ (op = "connect" /\ \E i \in 1..Len(stack) :
            stack[i].fn = "__enter__" /\ stack[i].pc = "after_version")
         => hist.pingEchoed
    /\ (Ended("connect") /\ outcome = Raised("IOError")) => ~hist.pingEchoed

\* C16 witness: connect returned a session, the echo having come on a read
\* of the retry loop.
C16_Witness ==
    /\ Ended("connect")
    /\ outcome = Returned
    /\ hist.pingEchoed
    /\ hist.pingReads >= 3

C18_EntryProcedure ==
    [][ /\ (lastIO'.kind = "write" /\ lastIO'.data[2] = 173)
          => /\ hist.modeWaited
             /\ Top.kw.timeout = 2000
             /\ Top.kw.retry_on_locked
             /\ stack'[Len(stack)].fn = "_read_data"
             /\ stack'[Len(stack)].kw = Top.kw
        /\ (Running("_read_data", "read") /\ lastWrite # << >>
               /\ lastWrite[2] = 173 /\ lastIO'.kind = "timeout")
          => /\ stack' = [Pop(stack) EXCEPT ![Len(stack) - 1].pc = "sleep"]
             /\ outcome' = outcome
        /\ Running("_data_management_mode", "sleep")
          => /\ lastIO' = [kind |-> "sleep", data |-> << 1000 >>]
             /\ stack' = [stack EXCEPT ![Len(stack)].pc = "entry_loop"]
        /\ (Running("_data_management_mode", "entry_loop") /\ hist.scope = "none")
          => /\ Len(stack') = Len(stack) + 1
             /\ stack'[Len(stack')].fn = "_send_command"
             /\ stack'[Len(stack')].command = 173
        /\ (hist.scope = "none" /\ hist'.scope # "none")
          => /\ lastIO.kind = "read"
             /\ lastIO.data[1] >= 1
             /\ hist'.scope = "entered" <=> lastIO.data[3] = 1
      ]_vars

\* C18 witness: START_MEMORYMGMT has been written again after an exchange
\* that timed out.
C18_Witness ==
    /\ lastIO = [kind |-> "write", data |-> Encode(START_MEMORYMGMT, << >>)]
    /\ hist.modeWaited
    /\ hist.exchange = "timeout"

\* C19: the favorites commands stay inside the scope.  GET_FAVORITE (0xC7)
\* and READ_FLASH_NODE (0xC5) are written only after START_MEMORYMGMT was
\* answered with the success byte and before END_MEMORYMGMT is written;
\* GET_FAVORITE is asked for slot 0, then 1, up to 13; a get_favorites_list
\* that returns has asked for all 14 slots, and one whose entry was declined
\* raises and has written neither command.
C19_FavoritesInsideScope ==
    [][ /\ (lastIO'.kind = "write" /\ lastIO'.data[2] \in {199, 197})
          => /\ op = "get_favorites_list"
             /\ hist.scope = "entered"
             /\ hist.endWrites = 0
        /\ (lastIO'.kind = "write" /\ lastIO'.data[2] = 199)
          => /\ hist.slotsAsked < 14
             /\ lastIO'.data = << 1, 199, hist.slotsAsked >>
        /\ hist'.scope = "declined"
          => (hist'.slotsAsked = 0 /\ hist'.populated = { })
        /\ (op = "get_favorites_list" /\ stack' = << >> /\ hist'.scope = "declined")
          => outcome'.kind = "raised"
        /\ (op = "get_favorites_list" /\ stack' = << >> /\ outcome' = Returned)
          => hist'.slotsAsked = 14
      ]_vars

\* C19 witness: get_favorites_list returned after it asked for the 14 slots,
\* read the nodes of one of them and wrote END_MEMORYMGMT.
C19_Witness ==
    /\ Ended("get_favorites_list")
    /\ outcome = Returned
    /\ hist.slotsAsked = 14
    /\ hist.populated # { }
    /\ hist.endWrites = 1

\* The payload of report p: its bytes after the length and the opcode, as
\* many as the length byte declares.
PayloadOf(p) == SubSeq(p, 3, 2 + p[1])

\* The payloads of three reports, one after the other.
ThreePayloads(ps) == PayloadOf(ps[1]) \o PayloadOf(ps[2]) \o PayloadOf(ps[3])

\* C20: the three-packet node read.  When get_favorites_list has its parent
\* buffer, the last command written is READ_FLASH_NODE (0xC5) of the parent
\* address, exactly three reports were read since, and the buffer is their
\* payloads in arrival order; it then calls for READ_FLASH_NODE of the child
\* address, and the same holds of the child buffer; the next command of the
\* body is written only after the three reports of a READ_FLASH_NODE.
C20_ThreePacketNodeRead ==
    [][ /\ Running("get_favorites_list", "after_parent3")
          => /\ lastWrite = << 2, 197 >> \o SubSeq(Top.fav_data, 1, 2)
             /\ Len(hist'.nodePackets) = 3
             /\ stack'[Len(stack)].parent_data = ThreePayloads(hist'.nodePackets)
             /\ stack'[Len(stack')].fn = "_send_command"
             /\ stack'[Len(stack')].command = 197
             /\ stack'[Len(stack')].arg = SubSeq(Top.fav_data, 3, 4)
        /\ Running("get_favorites_list", "after_child3")
          => /\ lastWrite = << 2, 197 >> \o SubSeq(Top.fav_data, 3, 4)
             /\ Len(hist'.nodePackets) = 3
             /\ Top.child_data \o ret = ThreePayloads(hist'.nodePackets)
        /\ (lastIO'.kind = "write" /\ lastIO'.data[2] \in {197, 199}
               /\ lastWrite # << >> /\ lastWrite[2] = 197)
          => Len(hist.nodePackets) = 3
      ]_vars

\* C20 witness: both nodes of a slot were read, three reports each, and the
\* slot is in the mapping.
C20_Witness ==
    /\ Running("get_favorites_list", "body")
    /\ lastWrite = Encode(READ_FLASH_NODE, << 2, 0 >>)
    /\ Len(hist.nodePackets) = 3
    /\ hist.populated # { }
    /\ DOMAIN Top.favorite = hist.populated

\* C21: logging suppression spans the scope.  In every state between the
\* success response to START_MEMORYMGMT and the write of END_MEMORYMGMT,
\* logging is disabled at level DEBUG.
C21_LoggingSuppressedInScope ==
    (op = "get_favorites_list" /\ stack # << >> /\ hist.scope = "entered"
       /\ hist.endWrites = 0)
    => logLevel = "DEBUG"

\* C22: decoding uses the declared length only.  For a report p of any size
\* that declares d = p[0] payload bytes, _read_data returns the bytes of p at
\* positions 2 .. 2+d-1 (1 .. 2+d-1 when the full packet was asked for), as
\* far as p holds them, and none of the bytes beyond.
C22_DeclaredLengthOnly ==
    (Running("roundtrip", "after_send") /\ lastIO.kind = "read")
    => LET p == lastIO.data
           from == IF Top.full_packet THEN 1 ELSE 2
           upto == IF 2 + p[1] < Len(p) THEN 2 + p[1] ELSE Len(p)
       IN  /\ Len(ret) = IF upto > from THEN upto - from ELSE 0
           /\ \A i \in 1..Len(ret) : ret[i] = p[from + i]

\* C22 witness: a padded report that declares two bytes was read with the
\* full packet asked for, and the opcode and the two bytes were returned.
C22_Witness ==
    /\ Running("roundtrip", "after_send")
    /\ Top.full_packet
    /\ lastIO.kind = "read"
    /\ Len(lastIO.data) = PacketSize
    /\ lastIO.data[1] = 2
    /\ ret = << GET_FAVORITE, 12, 13 >>

\* C23, the first half: once the device answers every status query with
\* Unlocked and times out no more, a wait_status_unlocked that has a query
\* awaiting its reply eventually returns, the session being scheduled fairly.
C23_UnlockWaitCompletes ==
    (hist.settled /\ Running("_read_data", "read"))
      ~> (Ended("wait_status_unlocked") /\ outcome = Returned)

\* C23, the converse: while the device reports no Unlocked status,
\* wait_status_unlocked does not return, and it keeps polling after each
\* Timeout and each Interrupted: neither of them ends it.
C23_PollsUntilUnlocked ==
    Ended("wait_status_unlocked")
    => /\ outcome.err \notin {"TimeoutError", "InterruptedError"}
       /\ outcome = Returned
            => /\ hist.waitReturn # << >>
               /\ hist.waitReturn[2] = MOOLTIPASS_STATUS
               /\ hist.waitReturn[1] >= 1
               /\ hist.waitReturn[3] = UNLOCKED

\* C23, the first half at work: the device settled while
\* wait_status_unlocked was running, and wait_status_unlocked returned on
\* its Unlocked report.
C23_Witness ==
    /\ hist.settled
    /\ Ended("wait_status_unlocked")
    /\ outcome = Returned
    /\ hist.waitReturn = StatusReport(UNLOCKED)

=============================================================================
